---- MODULE Spec2Model ----
(***************************************************************************)
(* A model of the in-memory to-do list of KaiAleWan/To-Do-List:            *)
(* src/src/list_items/structs.rs (Item, ToDoList) and                      *)
(* src/src/list_items/enums.rs (Priority, ToDoSelectionError).             *)
(*                                                                         *)
(* The list is the HashMap<String, Item> `items`; the wall clock           *)
(* (Local::now().date_naive()) is the variable `today`, which the          *)
(* environment advances.  `last` and `out` observe the latest call: which  *)
(* method ran, on which key, what the key lookup found, and what the       *)
(* method returned.                                                        *)
(*                                                                         *)
(* src/src/lib.rs and the save/load methods add the lists folder `files`,  *)
(* the name and description of the list in memory, and the position `pc`   *)
(* of the program: "run" for a caller of the ToDoList methods, a menu of   *)
(* lib.rs/main.rs, or "panic" once an expect() has failed.                 *)
(***************************************************************************)
EXTENDS Integers, Sequences, FiniteSets, TLC

VARIABLES items, today, last, out,
          list_name, list_description, files,
          pc, sel, entry, saved

\* The name and description of the list in memory, and the lists folder.
store == <<list_name, list_description, files>>

\* The position in the program; in the item menu, the selected item, what it
\* was when it was selected and whether 'Save changes' was used since.
menu == <<pc, sel, entry, saved>>

vars == <<items, today, last, out, list_name, list_description, files,
          pc, sel, entry, saved>>

-----------------------------------------------------------------------------
(* Bounds and input sets *)

\* How many days the wall clock may advance during a run.
MaxDays == 1

\* The date of the first call (the day before a leap day).
StartDate == <<2024, 2, 28>>

Names == {"a", "b"}

Descriptions == {"d1", "d2"}

\* Priority labels as character sequences (to_lowercase acts per character).
LabelLow == <<"L", "O", "W">>
LabelMedium == <<"m", "e", "d", "i", "u", "m">>
LabelHigh == <<"H", "i", "g", "h">>
LabelLo == <<"l", "o">>
LabelEmpty == <<>>

Labels == {LabelLow, LabelLo}

AllLabels == {LabelLow, LabelMedium, LabelHigh, LabelLo, LabelEmpty}

\* Option<T>: None, or Some(x).
None == <<>>
Some(x) == <<x>>
IsSome(o) == o # None
Unwrap(o) == o[1]

\* (year, month, day) triples a caller may submit.
ValidYmds ==
    {<<2000, 2, 29>>, <<2023, 12, 31>>, <<2024, 2, 28>>, <<2024, 2, 29>>, <<2024, 3, 1>>}
InvalidYmds ==
    {<<1900, 2, 29>>, <<2023, 2, 29>>, <<2024, 4, 31>>, <<2024, 13, 1>>, <<2024, 2, 0>>,
     <<2024, 0, 10>>, <<2024, 2, 30>>}

Ymds == {<<2024, 2, 28>>, <<2023, 2, 29>>}

AllYmds == ValidYmds \cup InvalidYmds

\* Triples around the start date, with one that is no date.
DueYmds == {<<2023, 12, 31>>, <<2024, 2, 28>>, <<2024, 2, 29>>, <<2024, 3, 1>>, <<2024, 4, 31>>}

OptYmds(S) == {None} \cup {Some(t) : t \in S}

-----------------------------------------------------------------------------
(* chrono::NaiveDate *)

IsLeapYear(y) == (y % 4 = 0 /\ y % 100 # 0) \/ y % 400 = 0

DaysInMonth(y, m) ==
    IF m = 2 THEN (IF IsLeapYear(y) THEN 29 ELSE 28)
    ELSE IF m \in {4, 6, 9, 11} THEN 30
    ELSE 31

\* NaiveDate::from_ymd_opt: Some(date) for a real calendar date, else None.
from_ymd_opt(y, m, d) ==
    IF m >= 1 /\ m <= 12 /\ d >= 1 /\ d <= DaysInMonth(y, m)
    THEN Some(<<y, m, d>>)
    ELSE None

\* NaiveDate's `<`: chronological order.
DateLt(a, b) ==
    \/ a[1] < b[1]
    \/ a[1] = b[1] /\ a[2] < b[2]
    \/ a[1] = b[1] /\ a[2] = b[2] /\ a[3] < b[3]

\* The calendar day after d (how Local::now().date_naive() moves on).
NextDay(d) ==
    IF d[3] < DaysInMonth(d[1], d[2]) THEN <<d[1], d[2], d[3] + 1>>
    ELSE IF d[2] < 12 THEN <<d[1], d[2] + 1, 1>>
    ELSE <<d[1] + 1, 1, 1>>

RECURSIVE AddDays(_, _)
AddDays(d, k) == IF k = 0 THEN d ELSE AddDays(NextDay(d), k - 1)

-----------------------------------------------------------------------------
(* enums.rs: Priority, ToDoSelectionError *)

Low == "Low"
Medium == "Medium"
High == "High"
Invalid == "Invalid"

Ok == "Ok"
ToDoNotFound == "ToDoNotFound"
ToDoAlreadyPresent == "ToDoAlreadyPresent"

\* str::to_lowercase on one character of the alphabet in use.
LowerChar(c) ==
    CASE c = "L" -> "l"
      [] c = "O" -> "o"
      [] c = "W" -> "w"
      [] c = "H" -> "h"
      [] c = "Y" -> "y"
      [] OTHER -> c

to_lowercase(s) == [i \in 1..Len(s) |-> LowerChar(s[i])]

\* Priority::from_str
Priority_from_str(input) ==
    IF to_lowercase(input) = <<"l", "o", "w">> THEN Low
    ELSE IF to_lowercase(input) = <<"m", "e", "d", "i", "u", "m">> THEN Medium
    ELSE IF to_lowercase(input) = <<"h", "i", "g", "h">> THEN High
    ELSE Invalid

-----------------------------------------------------------------------------
(* structs.rs: Item *)

\* Item::new with the two &str arguments name and description swapped.
Item_new_swapped(name, description, priority, due_date_ymd, now) ==
    [name |-> description,
     description |-> name,
     priority |-> Priority_from_str(priority),
     creation_date |-> now,
     due_date |-> IF IsSome(due_date_ymd)
                  THEN from_ymd_opt(Unwrap(due_date_ymd)[1], Unwrap(due_date_ymd)[2],
                                    Unwrap(due_date_ymd)[3])
                  ELSE None,
     completed |-> FALSE]

\* Item::new that falls back to the creation date when the triple is no date.
Item_new_fallback(name, description, priority, due_date_ymd, now) ==
    [name |-> name,
     description |-> description,
     priority |-> Priority_from_str(priority),
     creation_date |-> now,
     due_date |-> IF IsSome(due_date_ymd)
                  THEN (IF IsSome(from_ymd_opt(Unwrap(due_date_ymd)[1],
                                               Unwrap(due_date_ymd)[2],
                                               Unwrap(due_date_ymd)[3]))
                        THEN due_date_ymd
                        ELSE Some(now))
                  ELSE None,
     completed |-> FALSE]

\* Item::new
Item_new(name, description, priority, due_date_ymd, now) ==
    LET due_date ==
            IF IsSome(due_date_ymd)
            THEN LET ymd == Unwrap(due_date_ymd)
                 IN  from_ymd_opt(ymd[1], ymd[2], ymd[3])
            ELSE None
    IN  [name |-> name,
         description |-> description,
         priority |-> Priority_from_str(priority),
         creation_date |-> now,
         due_date |-> due_date,
         completed |-> FALSE]

\* Item::new, the diagnostic it prints: the rejected triple, or nothing.
Item_new_log(due_date_ymd) ==
    IF IsSome(due_date_ymd)
    THEN LET ymd == Unwrap(due_date_ymd)
         IN  IF IsSome(from_ymd_opt(ymd[1], ymd[2], ymd[3])) THEN None ELSE Some(ymd)
    ELSE None

\* is_overdue with `<=` for `<`.
is_overdue_inclusive(item, now) ==
    IF IsSome(item.due_date)
    THEN DateLt(Unwrap(item.due_date), now) \/ Unwrap(item.due_date) = now
    ELSE FALSE

\* Item::is_overdue
is_overdue(item, now) ==
    IF IsSome(item.due_date) THEN DateLt(Unwrap(item.due_date), now) ELSE FALSE

\* Item::is_completed
is_completed(item) == item.completed

\* Item::update_description
Item_update_description(item, new_description) ==
    [item EXCEPT !.description = new_description]

\* Item::update_priority
Item_update_priority(item, new_priority) ==
    [item EXCEPT !.priority = Priority_from_str(new_priority)]

\* update_due_date that clears the due date when the triple is no date.
Item_update_due_date_clear(item, ymd) ==
    [item EXCEPT !.due_date = from_ymd_opt(ymd[1], ymd[2], ymd[3])]

\* Item::update_due_date
Item_update_due_date(item, ymd) ==
    LET parsed == from_ymd_opt(ymd[1], ymd[2], ymd[3])
    IN  IF IsSome(parsed) THEN [item EXCEPT !.due_date = parsed] ELSE item

\* Item::update_due_date, the diagnostic it prints: the rejected triple, or nothing.
Item_update_due_date_log(ymd) ==
    IF IsSome(from_ymd_opt(ymd[1], ymd[2], ymd[3])) THEN None ELSE Some(ymd)

\* complete_item as a toggle.
Item_complete_item_toggle(item) == [item EXCEPT !.completed = ~@]

\* Item::complete_item
Item_complete_item(item) == [item EXCEPT !.completed = TRUE]

\* Item::open_item
Item_open_item(item) == [item EXCEPT !.completed = FALSE]

-----------------------------------------------------------------------------
(* std::collections::HashMap<String, Item>, as a function on its key set *)

EmptyMap == <<>>

contains_key(map, k) == k \in DOMAIN map

\* An insert that starts from a fresh map.
HashMap_insert_fresh(map, k, v) == [x \in {k} |-> v]

HashMap_insert(map, k, v) ==
    [x \in DOMAIN map \cup {k} |-> IF x = k THEN v ELSE map[x]]

HashMap_remove(map, k) == [x \in DOMAIN map \ {k} |-> map[x]]

-----------------------------------------------------------------------------
(* structs.rs: ToDoList.  Every method is a function of the item map (and  *)
(* the clock) to the new item map `self`, the returned value `res` and the  *)
(* diagnostic `log` printed on the way.                                    *)

\* ToDoList::list_contains_item
list_contains_item(self, item_name) == contains_key(self, item_name)

\* create_item that ignores `replace` and always overwrites.
create_item_always(self, name, description, priority, due_date_ymd, replace, now) ==
    [self |-> HashMap_insert(self, name,
                  Item_new(name, description, priority, due_date_ymd, now)),
     res |-> IF ~contains_key(self, name) \/ replace THEN Ok ELSE ToDoAlreadyPresent,
     log |-> Item_new_log(due_date_ymd)]

\* create_item that keeps an existing entry (entry().or_insert) when replacing.
create_item_or_insert(self, name, description, priority, due_date_ymd, replace, now) ==
    IF ~contains_key(self, name)
    THEN [self |-> HashMap_insert(self, name,
                       Item_new(name, description, priority, due_date_ymd, now)),
          res |-> Ok,
          log |-> Item_new_log(due_date_ymd)]
    ELSE [self |-> self,
          res |-> IF replace THEN Ok ELSE ToDoAlreadyPresent,
          log |-> IF replace THEN Item_new_log(due_date_ymd) ELSE None]

\* ToDoList::create_item
create_item(self, name, description, priority, due_date_ymd, replace, now) ==
    IF ~list_contains_item(self, name) \/ replace
    THEN [self |-> HashMap_insert(self, name,
                       Item_new(name, description, priority, due_date_ymd, now)),
          res |-> Ok,
          log |-> Item_new_log(due_date_ymd)]
    ELSE [self |-> self, res |-> ToDoAlreadyPresent, log |-> None]

\* ToDoList::get_item_ref
get_item_ref(self, item_name) ==
    IF list_contains_item(self, item_name)
    THEN [res |-> Ok, val |-> self[item_name]]
    ELSE [res |-> ToDoNotFound, val |-> None]

\* delete_item through retain() with the test inverted: keeps only the named item.
delete_item_retain(self, item_name) ==
    IF contains_key(self, item_name)
    THEN [self |-> [x \in {item_name} |-> self[x]], res |-> Ok]
    ELSE [self |-> self, res |-> ToDoNotFound]

\* ToDoList::delete_item
delete_item(self, item_name) ==
    IF list_contains_item(self, item_name)
    THEN [self |-> HashMap_remove(self, item_name), res |-> Ok]
    ELSE [self |-> self, res |-> ToDoNotFound]

\* ToDoList::update_item_description
update_item_description(self, item_name, new_description) ==
    IF contains_key(self, item_name)
    THEN [self |-> [self EXCEPT ![item_name] =
                        Item_update_description(@, new_description)],
          res |-> Ok]
    ELSE [self |-> self, res |-> ToDoNotFound]

\* update_item_priority that sets the new priority on every item of the list.
update_item_priority_all(self, item_name, new_priority) ==
    IF contains_key(self, item_name)
    THEN [self |-> [k \in DOMAIN self |->
                       Item_update_priority(self[k], new_priority)],
          res |-> Ok]
    ELSE [self |-> self, res |-> ToDoNotFound]

\* ToDoList::update_item_priority
update_item_priority(self, item_name, new_priority) ==
    IF contains_key(self, item_name)
    THEN [self |-> [self EXCEPT ![item_name] =
                        Item_update_priority(@, new_priority)],
          res |-> Ok]
    ELSE [self |-> self, res |-> ToDoNotFound]

\* ToDoList::update_item_due_date
update_item_due_date(self, item_name, ymd) ==
    IF contains_key(self, item_name)
    THEN [self |-> [self EXCEPT ![item_name] = Item_update_due_date(@, ymd)],
          res |-> Ok,
          log |-> Item_update_due_date_log(ymd)]
    ELSE [self |-> self, res |-> ToDoNotFound, log |-> None]

\* ToDoList::close_list_item
close_list_item(self, item_name) ==
    IF contains_key(self, item_name)
    THEN [self |-> [self EXCEPT ![item_name] = Item_complete_item(@)],
          res |-> Ok]
    ELSE [self |-> self, res |-> ToDoNotFound]

\* open_list_item that reports success for a name that is not in the list.
open_list_item_lenient(self, item_name) ==
    IF contains_key(self, item_name)
    THEN [self |-> [self EXCEPT ![item_name] = Item_open_item(@)], res |-> Ok]
    ELSE [self |-> self, res |-> Ok]

\* ToDoList::open_list_item
open_list_item(self, item_name) ==
    IF contains_key(self, item_name)
    THEN [self |-> [self EXCEPT ![item_name] = Item_open_item(@)],
          res |-> Ok]
    ELSE [self |-> self, res |-> ToDoNotFound]

\* The loop of filter_open_items with the test inverted.
RECURSIVE filter_open_loop_inverted(_, _, _)
filter_open_loop_inverted(self, todo, output) ==
    IF todo = {} THEN output
    ELSE LET k == CHOOSE x \in todo : TRUE
         IN  filter_open_loop_inverted(self, todo \ {k},
                 IF is_completed(self[k])
                 THEN HashMap_insert(output, k, self[k])
                 ELSE output)

\* The loop of filter_open_items over the entries not yet visited.
RECURSIVE filter_open_loop(_, _, _)
filter_open_loop(self, todo, output) ==
    IF todo = {} THEN output
    ELSE LET k == CHOOSE x \in todo : TRUE
         IN  filter_open_loop(self, todo \ {k},
                 IF ~is_completed(self[k])
                 THEN HashMap_insert(output, k, self[k])
                 ELSE output)

\* ToDoList::filter_open_items
filter_open_items(self) == filter_open_loop(self, DOMAIN self, EmptyMap)

\* The loop of filter_overdue_items over the entries not yet visited.
RECURSIVE filter_overdue_loop(_, _, _, _)
filter_overdue_loop(self, todo, output, now) ==
    IF todo = {} THEN output
    ELSE LET k == CHOOSE x \in todo : TRUE
         IN  filter_overdue_loop(self, todo \ {k},
                 IF ~is_completed(self[k]) /\ is_overdue(self[k], now)
                 THEN HashMap_insert(output, k, self[k])
                 ELSE output,
                 now)

\* ToDoList::filter_overdue_items
filter_overdue_items(self, now) ==
    filter_overdue_loop(self, DOMAIN self, EmptyMap, now)

-----------------------------------------------------------------------------
(* structs.rs: the JSON record of a ToDoList, save_to_do_list and          *)
(* load_to_do_list; lib.rs: the functions over the ./lists folder.         *)
(* A list name or file name is a sequence of characters; the folder is a   *)
(* mapping from file name to the record written there.                     *)

Panic == "Panic"
Err == "Err"

\* The decimal digits as characters.
Digits == <<"0", "1", "2", "3", "4", "5", "6", "7", "8", "9">>

\* One decimal digit of n as a character, and the digit a character stands for.
DigitChar(n) == Digits[n + 1]
DigitValue(c) == CHOOSE n \in 0..9 : Digits[n + 1] = c

\* NaiveDate's Serialize: the date as the text YYYY-MM-DD.
NaiveDate_serialize(date) ==
    <<DigitChar((date[1] \div 1000) % 10), DigitChar((date[1] \div 100) % 10),
      DigitChar((date[1] \div 10) % 10), DigitChar(date[1] % 10), "-",
      DigitChar((date[2] \div 10) % 10), DigitChar(date[2] % 10), "-",
      DigitChar((date[3] \div 10) % 10), DigitChar(date[3] % 10)>>

\* NaiveDate's Deserialize: the text YYYY-MM-DD parsed back into a date; a
\* text that is no calendar date is a deserialization error.
NaiveDate_deserialize(text) ==
    LET y == DigitValue(text[1]) * 1000 + DigitValue(text[2]) * 100
                 + DigitValue(text[3]) * 10 + DigitValue(text[4])
        m == DigitValue(text[6]) * 10 + DigitValue(text[7])
        d == DigitValue(text[9]) * 10 + DigitValue(text[10])
    IN  from_ymd_opt(y, m, d)

\* Priority in the record: the label of its variant.
Priority_serialize(priority) ==
    CASE priority = Low -> <<"L", "o", "w">>
      [] priority = Medium -> <<"M", "e", "d", "i", "u", "m">>
      [] priority = High -> <<"H", "i", "g", "h">>
      [] priority = Invalid -> <<"I", "n", "v", "a", "l", "i", "d">>

\* Priority read from the record: the variant that carries the label.
Priority_deserialize(label) ==
    CHOOSE priority \in {Low, Medium, High, Invalid} :
        Priority_serialize(priority) = label

\* JSON null, the record of an Option that is None.
Null == "null"

\* Item's derived Serialize.
Item_serialize(item) ==
    [name |-> item.name,
     description |-> item.description,
     priority |-> Priority_serialize(item.priority),
     creation_date |-> NaiveDate_serialize(item.creation_date),
     due_date |-> IF item.due_date = None THEN Null
                  ELSE NaiveDate_serialize(Unwrap(item.due_date)),
     completed |-> item.completed]

\* Item's derived Deserialize.
Item_deserialize(json) ==
    [name |-> json.name,
     description |-> json.description,
     priority |-> Priority_deserialize(json.priority),
     creation_date |-> Unwrap(NaiveDate_deserialize(json.creation_date)),
     due_date |-> IF json.due_date = Null THEN None
                  ELSE NaiveDate_deserialize(json.due_date),
     completed |-> json.completed]

\* serde_json::to_string_pretty on a ToDoList [name, description, items].
to_string_pretty(self) ==
    [name |-> self.name,
     description |-> self.description,
     items |-> [k \in DOMAIN self.items |-> Item_serialize(self.items[k])]]

\* serde_json::from_reader into a ToDoList.
from_reader(json) ==
    [name |-> json.name,
     description |-> json.description,
     items |-> [k \in DOMAIN json.items |-> Item_deserialize(json.items[k])]]

\* The ToDoList value of the three fields.
ToDoList(n, d, its) == [name |-> n, description |-> d, items |-> its]

\* ToDoList::create_to_do_list
ToDoList_create_to_do_list(n, d) == ToDoList(n, d, EmptyMap)

\* The extension of a record's file.
JsonExt == <<".", "j", "s", "o", "n">>

\* format!("{}.json", name)
WithJson(n) == n \o JsonExt

\* str::contains(".")
contains_dot(s) == \E i \in 1..Len(s) : s[i] = "."

\* std::fs::write: the file is created, or its content replaced.
fs_write(fs, path, content) ==
    [f \in DOMAIN fs \cup {path} |-> IF f = path THEN content ELSE fs[f]]

\* ToDoList::save_to_do_list: the folder after the call.
save_to_do_list(self, fs) ==
    fs_write(fs, WithJson(self.name), to_string_pretty(self))

\* The file load_to_do_list opens for an identifier.
load_path(identifier) ==
    IF contains_dot(to_lowercase(identifier))
    THEN identifier
    ELSE WithJson(identifier)

\* ToDoList::load_to_do_list: File::open(..).expect(..) panics when the file
\* is not there.
load_to_do_list(identifier, fs) ==
    IF load_path(identifier) \in DOMAIN fs
    THEN [res |-> Ok, val |-> Some(from_reader(fs[load_path(identifier)]))]
    ELSE [res |-> Panic, val |-> None]

\* summarize_list_files: the names of the files in the folder.
summarize_list_files(fs) == DOMAIN fs

\* list_file_exists that looks for the exact name only.
list_file_exists_exact(identifier, fs) ==
    identifier \in summarize_list_files(fs)

\* list_file_exists
list_file_exists(identifier, fs) ==
    \/ identifier \in summarize_list_files(fs)
    \/ WithJson(identifier) \in summarize_list_files(fs)

\* file_name in open_to_do_list
open_file_name(identifier) ==
    IF contains_dot(to_lowercase(identifier))
    THEN identifier
    ELSE WithJson(identifier)

\* open_to_do_list
open_to_do_list(identifier, fs) ==
    IF list_file_exists(open_file_name(identifier), fs)
    THEN load_to_do_list(open_file_name(identifier), fs)
    ELSE [res |-> Err, val |-> None]

-----------------------------------------------------------------------------
(* lib.rs: the functions behind the menus. What the user types is an       *)
(* argument of the operator.                                               *)

\* str::trim: the text without spaces at either end.
RECURSIVE trim(_)
trim(s) ==
    IF s = <<>> THEN s
    ELSE IF s[1] = " " THEN trim(SubSeq(s, 2, Len(s)))
    ELSE IF s[Len(s)] = " " THEN trim(SubSeq(s, 1, Len(s) - 1))
    ELSE s

\* get_user_input: the line typed, trimmed.
get_user_input(line) == trim(line)

\* input.to_lowercase().trim().eq("y")
is_yes(input) == trim(to_lowercase(input)) = <<"y">>

\* enter_date_value: the triples among those typed that it returns, which
\* are the valid dates; on any other it asks again.
enter_date_value(YS) == {ymd \in YS : from_ymd_opt(ymd[1], ymd[2], ymd[3]) # None}

\* ToDoList::new as lib.rs calls it: a fresh list with an empty item mapping.
ToDoList_new(n, d) == ToDoList(n, d, EmptyMap)

\* create_to_do_list (lib.rs): the folder after the call.
create_to_do_list(typed_name, typed_description, user_choice, fs) ==
    IF ~list_file_exists(typed_name, fs)
    THEN save_to_do_list(ToDoList_new(typed_name, typed_description), fs)
    ELSE IF is_yes(user_choice)
         THEN save_to_do_list(ToDoList_new(typed_name, typed_description), fs)
         ELSE fs

\* create_new_item that leaves the saving to the user.
create_new_item_unsaved(list, fs, item_name, item_description, item_priority, item_due_date, answer, now) ==
    LET replace == list_contains_item(list.items, item_name) /\ is_yes(answer)
        c == create_item(list.items, item_name, item_description, item_priority,
                         item_due_date, replace, now)
    IN  [list |-> [list EXCEPT !.items = c.self], files |-> fs, res |-> c.res]

\* create_new_item: the list and the folder after the call.
create_new_item(list, fs, item_name, item_description, item_priority, item_due_date, answer, now) ==
    LET replace == list_contains_item(list.items, item_name) /\ is_yes(answer)
        c == create_item(list.items, item_name, item_description, item_priority,
                         item_due_date, replace, now)
    IN  IF c.res # Ok
        THEN [list |-> list, files |-> fs, res |-> c.res]
        ELSE [list |-> [list EXCEPT !.items = c.self],
              files |-> save_to_do_list([list EXCEPT !.items = c.self], fs),
              res |-> Ok]

\* delete_list_item, one pass of its loop on a selection other than 'cancel':
\* the list and the folder after it, and whether the loop was left.
delete_list_item(list, fs, delete_selection, delete_confirmation) ==
    IF ~list_contains_item(list.items, delete_selection)
    THEN [list |-> list, files |-> fs, left |-> FALSE]
    ELSE IF is_yes(delete_confirmation)
         THEN LET c == delete_item(list.items, delete_selection)
              IN  [list |-> [list EXCEPT !.items = c.self],
                   files |-> save_to_do_list([list EXCEPT !.items = c.self], fs),
                   left |-> TRUE]
         ELSE [list |-> list, files |-> fs, left |-> FALSE]

-----------------------------------------------------------------------------
(* utils/functions.rs: sort_list, and ToDoList::list_all_items *)

\* The UTF-8 bytes of the item names in use (String's order is their order).
as_bytes(s) ==
    CASE s = "a" -> <<97>>
      [] s = "ab" -> <<97, 98>>
      [] s = "b" -> <<98>>
      [] s = "d" -> <<100>>
      [] s = "B" -> <<66>>

\* Ord for byte strings from position i on: the first differing byte decides,
\* and a proper prefix is Less.
RECURSIVE bytes_cmp(_, _, _)
bytes_cmp(x, y, i) ==
    IF i > Len(x) /\ i > Len(y) THEN "Equal"
    ELSE IF i > Len(x) THEN "Less"
    ELSE IF i > Len(y) THEN "Greater"
    ELSE IF x[i] < y[i] THEN "Less"
    ELSE IF x[i] > y[i] THEN "Greater"
    ELSE bytes_cmp(x, y, i + 1)

\* String::cmp
String_cmp(x, y) == bytes_cmp(as_bytes(x), as_bytes(y), 1)

\* One step of the stable insertion sort that slice::sort_by runs on a short
\* slice: the entry e moves left past every entry it is Less than.
RECURSIVE insert_tail(_, _)
insert_tail(v, e) ==
    IF v = <<>> THEN <<e>>
    ELSE IF String_cmp(e[1], v[Len(v)][1]) = "Less"
         THEN Append(insert_tail(SubSeq(v, 1, Len(v) - 1), e), v[Len(v)])
         ELSE Append(v, e)

\* slice::sort_by(|x, y| x.0.cmp(y.0)) on the first i entries of v.
RECURSIVE sort_by_key(_, _)
sort_by_key(v, i) ==
    IF i = 0 THEN <<>> ELSE insert_tail(sort_by_key(v, i - 1), v[i])

\* hash_list.iter().collect(): the entries in the order `order` in which the
\* HashMap happens to yield its keys.
collect(hash_list, order) == [i \in 1..Len(order) |-> <<order[i], hash_list[order[i]]>>]

\* sort_list without the sort_by: the entries in iteration order.
sort_list_unsorted(hash_list, order) == collect(hash_list, order)

\* sort_list
sort_list(hash_list, order) ==
    LET output == collect(hash_list, order)
    IN  sort_by_key(output, Len(output))

\* ToDoList::list_all_items
list_all_items(hash_map, order) == sort_list(hash_map, order)

\* The orders in which a HashMap may yield the keys S.
IterationOrders(S) ==
    {f \in [1..Cardinality(S) -> S] : \A i, j \in 1..Cardinality(S) : f[i] = f[j] => i = j}

-----------------------------------------------------------------------------
(* Observation of a call *)

\* What the key lookup of a call found: no entry, an open or a completed item.
Found(self, name) ==
    IF ~contains_key(self, name) THEN "absent"
    ELSE IF self[name].completed THEN "completed"
    ELSE "open"

NoName == "-"

Called(op, name, replace, was, res, log) ==
    [op |-> op, name |-> name, replace |-> replace, was |-> was, result |-> res,
     log |-> log]

-----------------------------------------------------------------------------
(* The state machine *)

\* ToDoList::create_to_do_list: an empty item map.
Init ==
    /\ items = EmptyMap
    /\ today = StartDate
    /\ last = Called("create_to_do_list", NoName, FALSE, "absent", Ok, None)
    /\ out = None
    /\ list_name = <<"w">>
    /\ list_description = "l1"
    /\ files = EmptyMap
    /\ pc = "run"
    /\ sel = NoName
    /\ entry = None
    /\ saved = FALSE

\* One call of create_item.
CreateItemCall(n, d, p, dd, r) ==
    LET c == create_item(items, n, d, p, dd, r, today)
    IN  /\ last' = Called("create_item", n, r, Found(items, n), c.res, c.log)
        /\ items' = c.self
        /\ out' = None
        /\ UNCHANGED today
        /\ pc = "run"
        /\ UNCHANGED <<store, menu>>

CreateItem(NS, DS, PS, YS) ==
    \E n \in NS, d \in DS, p \in PS, dd \in OptYmds(YS), r \in BOOLEAN :
        CreateItemCall(n, d, p, dd, r)

\* One call of get_item_ref.
GetItemCall(n) ==
    LET c == get_item_ref(items, n)
    IN  /\ last' = Called("get_item_ref", n, FALSE, Found(items, n), c.res, None)
        /\ out' = c.val
        /\ UNCHANGED <<items, today>>
        /\ pc = "run"
        /\ UNCHANGED <<store, menu>>

GetItem(NS) == \E n \in NS : GetItemCall(n)

\* One call of delete_item.
DeleteItemCall(n) ==
    LET c == delete_item(items, n)
    IN  /\ last' = Called("delete_item", n, FALSE, Found(items, n), c.res, None)
        /\ items' = c.self
        /\ out' = None
        /\ UNCHANGED today
        /\ pc = "run"
        /\ UNCHANGED <<store, menu>>

DeleteItem(NS) == \E n \in NS : DeleteItemCall(n)

\* One call of update_item_description.
UpdateDescriptionCall(n, d) ==
    LET c == update_item_description(items, n, d)
    IN  /\ last' = Called("update_item_description", n, FALSE, Found(items, n), c.res, None)
        /\ items' = c.self
        /\ out' = None
        /\ UNCHANGED today
        /\ pc = "run"
        /\ UNCHANGED <<store, menu>>

UpdateDescription(NS, DS) == \E n \in NS, d \in DS : UpdateDescriptionCall(n, d)

\* One call of update_item_priority.
UpdatePriorityCall(n, p) ==
    LET c == update_item_priority(items, n, p)
    IN  /\ last' = Called("update_item_priority", n, FALSE, Found(items, n), c.res, None)
        /\ items' = c.self
        /\ out' = None
        /\ UNCHANGED today
        /\ pc = "run"
        /\ UNCHANGED <<store, menu>>

UpdatePriority(NS, PS) == \E n \in NS, p \in PS : UpdatePriorityCall(n, p)

\* One call of update_item_due_date.
UpdateDueDateCall(n, ymd) ==
    LET c == update_item_due_date(items, n, ymd)
    IN  /\ last' = Called("update_item_due_date", n, FALSE, Found(items, n), c.res, c.log)
        /\ items' = c.self
        /\ out' = None
        /\ UNCHANGED today
        /\ pc = "run"
        /\ UNCHANGED <<store, menu>>

UpdateDueDate(NS, YS) == \E n \in NS, ymd \in YS : UpdateDueDateCall(n, ymd)

\* One call of close_list_item.
CloseItemCall(n) ==
    LET c == close_list_item(items, n)
    IN  /\ last' = Called("close_list_item", n, FALSE, Found(items, n), c.res, None)
        /\ items' = c.self
        /\ out' = None
        /\ UNCHANGED today
        /\ pc = "run"
        /\ UNCHANGED <<store, menu>>

CloseItem(NS) == \E n \in NS : CloseItemCall(n)

\* One call of open_list_item.
OpenItemCall(n) ==
    LET c == open_list_item(items, n)
    IN  /\ last' = Called("open_list_item", n, FALSE, Found(items, n), c.res, None)
        /\ items' = c.self
        /\ out' = None
        /\ UNCHANGED today
        /\ pc = "run"
        /\ UNCHANGED <<store, menu>>

OpenItem(NS) == \E n \in NS : OpenItemCall(n)

\* One call of filter_open_items.
FilterOpen ==
    /\ last' = Called("filter_open_items", NoName, FALSE, "absent", Ok, None)
    /\ out' = Some(filter_open_items(items))
    /\ UNCHANGED <<items, today>>
    /\ pc = "run"
    /\ UNCHANGED <<store, menu>>

\* One call of filter_overdue_items.
FilterOverdue ==
    /\ last' = Called("filter_overdue_items", NoName, FALSE, "absent", Ok, None)
    /\ out' = Some(filter_overdue_items(items, today))
    /\ UNCHANGED <<items, today>>
    /\ pc = "run"
    /\ UNCHANGED <<store, menu>>

\* ToDoList::display_all_items: the items as list_all_items orders them.
DisplayAllItems ==
    \E order \in IterationOrders(DOMAIN items) :
        /\ last' = Called("display_all_items", NoName, FALSE, "absent", Ok, None)
        /\ out' = Some(list_all_items(items, order))
        /\ UNCHANGED <<items, today>>
        /\ pc = "run"
        /\ UNCHANGED <<store, menu>>

\* ToDoList::display_all_open_items: the open items as list_all_items orders them.
DisplayAllOpenItems ==
    LET filtered_list == filter_open_items(items)
    IN  \E order \in IterationOrders(DOMAIN filtered_list) :
            /\ last' = Called("display_all_open_items", NoName, FALSE, "absent", Ok, None)
            /\ out' = Some(list_all_items(filtered_list, order))
            /\ UNCHANGED <<items, today>>
            /\ pc = "run"
            /\ UNCHANGED <<store, menu>>

\* Midnight passes: Local::now().date_naive() moves to the next day.
Tick ==
    /\ \E k \in 0..(MaxDays - 1) : today = AddDays(StartDate, k)
    /\ today' = NextDay(today)
    /\ UNCHANGED <<items, last, out>>
    /\ pc = "run"
    /\ UNCHANGED <<store, menu>>

\* The list in memory.
TheList == ToDoList(list_name, list_description, items)

\* ToDoList::create_to_do_list: the list in memory is a new, empty list.
NewListCall(n, d) ==
    LET c == ToDoList_create_to_do_list(n, d)
    IN  /\ pc = "run"
        /\ list_name' = c.name
        /\ list_description' = c.description
        /\ items' = c.items
        /\ last' = Called("create_to_do_list", NoName, FALSE, "absent", Ok, None)
        /\ out' = None
        /\ UNCHANGED <<today, files, menu>>

NewList(LS, LDS) == \E n \in LS, d \in LDS : NewListCall(n, d)

\* ToDoList::save_to_do_list on the list in memory.
SaveList ==
    /\ pc = "run"
    /\ files' = save_to_do_list(TheList, files)
    /\ last' = Called("save_to_do_list", NoName, FALSE, "absent", Ok, None)
    /\ out' = None
    /\ UNCHANGED <<items, today, list_name, list_description, menu>>

\* What a caller holds after a call that returns a list, fails or panics: the
\* returned list replaces the one in memory, and a panic ends the program.
Returned(op, c) ==
    /\ pc = "run"
    /\ IF c.res = Ok
       THEN /\ list_name' = Unwrap(c.val).name
            /\ list_description' = Unwrap(c.val).description
            /\ items' = Unwrap(c.val).items
       ELSE UNCHANGED <<list_name, list_description, items>>
    /\ pc' = IF c.res = Panic THEN "panic" ELSE pc
    /\ last' = Called(op, NoName, FALSE, "absent", c.res, None)
    /\ out' = None
    /\ UNCHANGED <<today, files, sel, entry, saved>>

\* ToDoList::load_to_do_list
LoadList(IDS) ==
    \E id \in IDS : Returned("load_to_do_list", load_to_do_list(id, files))

\* open_to_do_list
OpenList(IDS) ==
    \E id \in IDS : Returned("open_to_do_list", open_to_do_list(id, files))

-----------------------------------------------------------------------------
(* main.rs and lib.rs: the menus. pc is the menu that reads the next       *)
(* input: "main" (main), "open" (the list selection loop of main), "list"  *)
(* (modify_to_do_list), "select" and "item" (the two loops of              *)
(* select_and_modify_list), "delete" (delete_list_item).                   *)

\* What the list variables hold while no list is open.
NoList == ToDoList(<<>>, "", EmptyMap)

\* The list in memory becomes l.
ListBecomes(l) ==
    /\ list_name' = l.name
    /\ list_description' = l.description
    /\ items' = l.items

\* What a menu step records: the function that ran, on which item.
MenuStep(op, n, res) ==
    /\ last' = Called(op, n, FALSE, Found(items, n), res, None)
    /\ out' = None
    /\ UNCHANGED today

\* main, option 2: create_to_do_list.
MainCreateList(TS, LDS, CS) ==
    \E line \in TS, d \in LDS, choice \in CS :
        /\ pc = "main"
        /\ files' = create_to_do_list(get_user_input(line), d, get_user_input(choice), files)
        /\ MenuStep("create_to_do_list_menu", NoName, Ok)
        /\ UNCHANGED <<items, list_name, list_description, menu>>

\* main, option 3: the list selection loop begins.
MainSelectList ==
    /\ pc = "main"
    /\ pc' = "open"
    /\ MenuStep("list_selection", NoName, Ok)
    /\ UNCHANGED <<items, store, sel, entry, saved>>

\* List selection, 'cancel': back to the main menu.
OpenCancel ==
    /\ pc = "open"
    /\ pc' = "main"
    /\ MenuStep("list_selection_cancel", NoName, Ok)
    /\ UNCHANGED <<items, store, sel, entry, saved>>

\* List selection, a name other than 'cancel': open_to_do_list, and
\* modify_to_do_list on the list it returns.
MainOpenList(TS) ==
    \E line \in TS :
        LET c == open_to_do_list(trim(get_user_input(line)), files)
        IN  /\ pc = "open"
            /\ IF c.res = Ok
               THEN ListBecomes(Unwrap(c.val))
               ELSE UNCHANGED <<list_name, list_description, items>>
            /\ pc' = CASE c.res = Ok -> "list"
                       [] c.res = Err -> "open"
                       [] c.res = Panic -> "panic"
            /\ sel' = NoName
            /\ entry' = None
            /\ saved' = FALSE
            /\ MenuStep("open_to_do_list", NoName, c.res)
            /\ UNCHANGED files

\* modify_to_do_list, option 1: create_new_item.
ListCreateItem(NS, DS, PS, YS, CS) ==
    \E n \in NS, d \in DS, p \in PS, dd \in OptYmds(enter_date_value(YS)), answer \in CS :
        LET c == create_new_item(TheList, files, n, d, p, dd, get_user_input(answer), today)
        IN  /\ pc = "list"
            /\ ListBecomes(c.list)
            /\ files' = c.files
            /\ MenuStep("create_new_item", n, c.res)
            /\ UNCHANGED menu

\* modify_to_do_list, option 2: select_and_modify_list begins.
ListModify ==
    /\ pc = "list"
    /\ pc' = "select"
    /\ MenuStep("select_and_modify_list", NoName, Ok)
    /\ UNCHANGED <<items, store, sel, entry, saved>>

\* select_and_modify_list, the name of an item of the list: the item is
\* selected. (Any other text but 'cancel' is asked for again.)
SelectItem(NS) ==
    \E n \in NS :
        /\ pc = "select"
        /\ list_contains_item(items, n)
        /\ pc' = "item"
        /\ sel' = n
        /\ entry' = Some(items[n])
        /\ saved' = FALSE
        /\ MenuStep("select_item", n, Ok)
        /\ UNCHANGED <<items, store>>

\* select_and_modify_list, 'cancel': back to modify_to_do_list.
SelectCancel ==
    /\ pc = "select"
    /\ pc' = "list"
    /\ MenuStep("select_cancel", NoName, Ok)
    /\ UNCHANGED <<items, store, sel, entry, saved>>

\* An option of the item menu that calls a mutator of the list on the
\* selected item (.expect() on its result).
ItemMutator(op, c) ==
    /\ pc = "item"
    /\ items' = c.self
    /\ pc' = IF c.res = Ok THEN pc ELSE "panic"
    /\ MenuStep(op, sel, c.res)
    /\ UNCHANGED <<store, sel, entry, saved>>

\* Item menu, option 1: the description.
ItemDescription(DS) ==
    \E d \in DS : ItemMutator("item_description", update_item_description(items, sel, d))

\* Item menu, option 2: the due date, from enter_date_value.
ItemDueDate(YS) ==
    \E ymd \in enter_date_value(YS) :
        ItemMutator("item_due_date", update_item_due_date(items, sel, ymd))

\* Item menu, option 3: the priority.
ItemPriority(PS) ==
    \E p \in PS : ItemMutator("item_priority", update_item_priority(items, sel, p))

\* Item menu, option 4: complete the item.
ItemComplete == ItemMutator("item_complete", close_list_item(items, sel))

\* Item menu, option 5: open the item.
ItemOpen == ItemMutator("item_open", open_list_item(items, sel))

\* Item menu, option 6: save changes.
ItemSave ==
    /\ pc = "item"
    /\ files' = save_to_do_list(TheList, files)
    /\ saved' = TRUE
    /\ MenuStep("item_save", sel, Ok)
    /\ UNCHANGED <<items, list_name, list_description, pc, sel, entry>>

\* Item menu, option 7: cancel, which leaves the inner loop.
ItemCancel ==
    /\ pc = "item"
    /\ pc' = "select"
    /\ MenuStep("item_cancel", sel, Ok)
    /\ UNCHANGED <<items, store, sel, entry, saved>>

\* modify_to_do_list, option 3: delete_list_item begins.
ListDelete ==
    /\ pc = "list"
    /\ pc' = "delete"
    /\ MenuStep("delete_list_item", NoName, Ok)
    /\ UNCHANGED <<items, store, sel, entry, saved>>

\* delete_list_item, the name of an item and the answer to 'Enter Y to
\* confirm'.
DeleteSelect(NS, CS) ==
    \E n \in NS, answer \in CS :
        LET c == delete_list_item(TheList, files, n, get_user_input(answer))
        IN  /\ pc = "delete"
            /\ ListBecomes(c.list)
            /\ files' = c.files
            /\ pc' = IF c.left THEN "list" ELSE pc
            /\ MenuStep("delete_select", n, IF c.left THEN Ok ELSE Err)
            /\ UNCHANGED <<sel, entry, saved>>

\* delete_list_item, 'cancel'.
DeleteCancel ==
    /\ pc = "delete"
    /\ pc' = "list"
    /\ MenuStep("delete_cancel", NoName, Ok)
    /\ UNCHANGED <<items, store, sel, entry, saved>>

\* modify_to_do_list, option 4: the list is dropped, back to the list
\* selection.
ListCancel ==
    /\ pc = "list"
    /\ pc' = "open"
    /\ ListBecomes(NoList)
    /\ sel' = NoName
    /\ entry' = None
    /\ saved' = FALSE
    /\ MenuStep("modify_cancel", NoName, Ok)
    /\ UNCHANGED files

\* The program at its main menu: no list open, the folder empty.
InitMenu ==
    /\ items = NoList.items
    /\ list_name = NoList.name
    /\ list_description = NoList.description
    /\ today = StartDate
    /\ last = Called("main", NoName, FALSE, "absent", Ok, None)
    /\ out = None
    /\ files = EmptyMap
    /\ pc = "main"
    /\ sel = NoName
    /\ entry = None
    /\ saved = FALSE

Next ==
    \/ CreateItem(Names, Descriptions, Labels, Ymds)
    \/ GetItem(Names)
    \/ DeleteItem(Names)
    \/ UpdateDescription(Names, Descriptions)
    \/ UpdatePriority(Names, Labels)
    \/ UpdateDueDate(Names, Ymds)
    \/ CloseItem(Names)
    \/ OpenItem(Names)
    \/ FilterOpen
    \/ FilterOverdue
    \/ Tick

Spec == Init /\ [][Next]_vars

\* The same list with one item name and the full range of labels and date
\* triples: the item-level behaviour in detail.
OneName == {"a"}

NextItem ==
    \/ CreateItem(OneName, Descriptions, AllLabels, AllYmds)
    \/ GetItem(OneName)
    \/ DeleteItem(OneName)
    \/ UpdateDescription(OneName, Descriptions)
    \/ UpdatePriority(OneName, AllLabels)
    \/ UpdateDueDate(OneName, AllYmds)
    \/ CloseItem(OneName)
    \/ OpenItem(OneName)
    \/ FilterOpen
    \/ FilterOverdue
    \/ Tick

SpecItem == Init /\ [][NextItem]_vars

\* The same list with two item names, one description and one label, and due
\* dates before, on and after the days the clock shows.
OneDescription == {"d1"}

OneLabel == {LabelLow}

NextDue ==
    \/ CreateItem(Names, OneDescription, OneLabel, DueYmds)
    \/ GetItem(Names)
    \/ DeleteItem(Names)
    \/ UpdateDescription(Names, OneDescription)
    \/ UpdatePriority(Names, OneLabel)
    \/ UpdateDueDate(Names, DueYmds)
    \/ CloseItem(Names)
    \/ OpenItem(Names)
    \/ FilterOpen
    \/ FilterOverdue
    \/ Tick

SpecDue == Init /\ [][NextDue]_vars

\* The same list with five item names, one of them a prefix of another and one
\* in upper case, and the ordered views of it.
SortNames == {"d", "b", "a", "ab", "B"}

NextSort ==
    \/ CreateItem(SortNames, OneDescription, OneLabel, {})
    \/ DeleteItem(SortNames)
    \/ CloseItem(SortNames)
    \/ DisplayAllItems
    \/ DisplayAllOpenItems

SpecSort == Init /\ [][NextSort]_vars

\* Lists under two names and two descriptions, each new and empty, and the
\* five mutators on two items.
ListNames == {<<"w">>, <<"w", ".", "x">>}

ListDescriptions == {"l1", "l2"}

NextFrame ==
    \/ NewList(ListNames, ListDescriptions)
    \/ CreateItem(Names, OneDescription, OneLabel, {})
    \/ UpdateDescription(Names, Descriptions)
    \/ UpdatePriority(Names, Labels)
    \/ UpdateDueDate(Names, Ymds)
    \/ CloseItem(Names)
    \/ OpenItem(Names)

SpecFrame == Init /\ [][NextFrame]_vars

\* Lists saved to the folder and read back: two list names, one of them with
\* a '.', each asked for with and without the extension; one item name, with
\* priorities, due dates and completion that differ.
Identifiers == ListNames \cup {WithJson(n) : n \in ListNames}

StoreYmds == {<<2024, 2, 29>>}

NextStore ==
    \/ NewList(ListNames, ListDescriptions)
    \/ CreateItem(OneName, OneDescription, Labels, StoreYmds)
    \/ CloseItem(OneName)
    \/ SaveList
    \/ LoadList(Identifiers)
    \/ OpenList(Identifiers)

SpecStore == Init /\ [][NextStore]_vars

\* The menus on one list, w: items a and b are created and deleted, and a is
\* selected and modified in every way the item menu offers, saved or not.
TypedW == {<<"w">>}

OneListDescription == {"l1"}

Choices == {<<"Y">>, <<"n">>}

NextMenu ==
    \/ MainCreateList(TypedW, OneListDescription, Choices)
    \/ MainSelectList
    \/ OpenCancel
    \/ MainOpenList(TypedW)
    \/ ListCreateItem(Names, OneDescription, OneLabel, {}, Choices)
    \/ ListModify
    \/ SelectItem(OneName)
    \/ SelectCancel
    \/ ItemDescription(Descriptions)
    \/ ItemDueDate(StoreYmds \cup InvalidYmds)
    \/ ItemPriority(OneLabel)
    \/ ItemComplete
    \/ ItemOpen
    \/ ItemSave
    \/ ItemCancel
    \/ ListDelete
    \/ DeleteSelect(Names, Choices)
    \/ DeleteCancel
    \/ ListCancel

SpecMenu == InitMenu /\ [][NextMenu]_vars

\* The main menu with list names typed with and without the extension: lists
\* are created, created again, opened and given an item.
TypedNames == {<<"w">>, <<"w", ".", "j", "s", "o", "n">>}

NextLists ==
    \/ MainCreateList(TypedNames, ListDescriptions, Choices)
    \/ MainSelectList
    \/ OpenCancel
    \/ MainOpenList(TypedNames)
    \/ ListCreateItem(Names, OneDescription, Labels, {}, Choices)
    \/ ListCancel

SpecLists == InitMenu /\ [][NextLists]_vars

-----------------------------------------------------------------------------
(* What a caller expects, stated without the code's own helpers *)

\* The priority each label stands for.
ExpectedPriority(label) ==
    CASE label = LabelLow -> Low
      [] label = LabelMedium -> Medium
      [] label = LabelHigh -> High
      [] OTHER -> Invalid

\* The due date an optional triple stands for: the date itself when it is a
\* real calendar date, nothing otherwise.
ExpectedDue(dd) ==
    IF dd = None THEN None
    ELSE IF Unwrap(dd) \in ValidYmds THEN dd
    ELSE None

-----------------------------------------------------------------------------------------------------------------------------------------------------
(* Claims.  Every method of ToDoList is a function of the list and its      *)
(* arguments, so a claim about a method is stated of that function in every *)
(* reachable state of the list, for every argument of the input sets; the   *)
(* witness is a reachable state in which such a call has just happened.     *)

\* C1: create_item with replace=false on a name that is already in the list
\* returns ToDoAlreadyPresent and changes nothing: the item set and every
\* field of every item are as before the call.
C1_CreateExistingRejected ==
    /\ \A n \in DOMAIN items, d \in Descriptions, p \in Labels, dd \in OptYmds(Ymds) :
          LET c == create_item(items, n, d, p, dd, FALSE, today)
          IN  /\ c.res = ToDoAlreadyPresent
              /\ c.self = items
    /\ (last.op = "create_item" /\ ~last.replace /\ last.was # "absent")
          => last.result = ToDoAlreadyPresent

\* C1 witness: a rejected create_item on a completed item, which is still
\* there, still completed.
C1_Witness ==
    /\ last.op = "create_item"
    /\ last.result = ToDoAlreadyPresent
    /\ last.was = "completed"
    /\ contains_key(items, last.name)
    /\ items[last.name].completed

\* C2: create_item with replace=true succeeds whether or not the name exists,
\* and get_item_ref(name) then returns an item with the description, priority
\* and due date of this call and completed = false, whatever the replaced
\* item was.
C2_CreateReplaceReflectsCall ==
    /\ \A n \in Names, d \in Descriptions, p \in Labels, dd \in OptYmds(Ymds) :
          LET c == create_item(items, n, d, p, dd, TRUE, today)
              g == get_item_ref(c.self, n)
          IN  /\ c.res = Ok
              /\ g.res = Ok
              /\ g.val.description = d
              /\ g.val.priority = ExpectedPriority(p)
              /\ g.val.due_date = ExpectedDue(dd)
              /\ g.val.completed = FALSE
    /\ (last.op = "create_item" /\ last.replace)
          => (last.result = Ok /\ ~items[last.name].completed)

\* C2 witness: a create_item with replace=true has replaced a completed item by
\* an open one.
C2_Witness ==
    /\ last.op = "create_item"
    /\ last.replace
    /\ last.was = "completed"
    /\ last.result = Ok
    /\ ~items[last.name].completed

\* C3: item names are unique within the list: every item stored under key k
\* carries the name k, so no two entries hold items of the same name.
C3_NamesUnique ==
    /\ \A k \in DOMAIN items : items[k].name = k
    /\ \A j, k \in DOMAIN items : items[j].name = items[k].name => j = k

\* C3 witness: two items in the list, after an item was replaced.
C3_Witness ==
    /\ Cardinality(DOMAIN items) = 2
    /\ last.op = "create_item"
    /\ last.replace
    /\ last.was # "absent"

\* The item a successful create_item(n, d, p, dd, ..) is expected to store.
ExpectedItem(n, d, p, dd, now) ==
    [name |-> n,
     description |-> d,
     priority |-> ExpectedPriority(p),
     creation_date |-> now,
     due_date |-> ExpectedDue(dd),
     completed |-> FALSE]

\* C4: a successful create_item(n, ..) leaves every item of another name
\* unchanged: afterwards the list contains n and every name it contained,
\* get_item_ref of another name returns the item it returned before, and
\* get_item_ref(n) returns the item constructed for n.
C4_CreateKeepsOthers ==
    \A n \in Names, d \in Descriptions, p \in Labels, dd \in OptYmds(Ymds),
       r \in BOOLEAN :
        LET c == create_item(items, n, d, p, dd, r, today)
        IN  c.res = Ok =>
              /\ list_contains_item(c.self, n)
              /\ get_item_ref(c.self, n) =
                     [res |-> Ok, val |-> ExpectedItem(n, d, p, dd, today)]
              /\ \A k \in DOMAIN items \ {n} :
                    /\ list_contains_item(c.self, k)
                    /\ get_item_ref(c.self, k) = get_item_ref(items, k)
              /\ DOMAIN c.self = DOMAIN items \cup {n}

\* C4 witness: a second name was just inserted next to an item that differs
\* from it in every field a caller sets.
C4_Witness ==
    /\ last.op = "create_item"
    /\ last.was = "absent"
    /\ last.result = Ok
    /\ DOMAIN items = Names
    /\ \E k \in Names \ {last.name} :
          /\ items[k].description # items[last.name].description
          /\ items[k].priority # items[last.name].priority
          /\ items[k].due_date # items[last.name].due_date
          /\ items[k].completed

\* C5: delete_item on a name in the list returns Ok and removes exactly that
\* item (get_item_ref on it then fails with ToDoNotFound, every other item is
\* as before); on a name not in the list it returns ToDoNotFound and leaves
\* the list as it was.
C5_DeleteExactlyOne ==
    /\ \A n \in Names :
          LET c == delete_item(items, n)
          IN  IF list_contains_item(items, n)
              THEN /\ c.res = Ok
                   /\ get_item_ref(c.self, n).res = ToDoNotFound
                   /\ DOMAIN c.self = DOMAIN items \ {n}
                   /\ \A k \in DOMAIN items \ {n} :
                         get_item_ref(c.self, k) = get_item_ref(items, k)
              ELSE /\ c.res = ToDoNotFound
                   /\ c.self = items
    /\ last.op = "delete_item"
          => /\ last.result = (IF last.was = "absent" THEN ToDoNotFound ELSE Ok)
             /\ ~contains_key(items, last.name)

\* C5 witness: an item was just deleted and the other item is still there.
C5_Witness ==
    /\ last.op = "delete_item"
    /\ last.result = Ok
    /\ DOMAIN items = Names \ {last.name}

\* C6: update_item_description, update_item_priority, update_item_due_date,
\* close_list_item and open_list_item return ToDoNotFound and leave the whole
\* list unchanged for a name that is not in the list, and return Ok for a name
\* that is in it.
C6_MutatorsNotFound ==
    \A n \in Names :
        LET Settled(c) ==
                IF list_contains_item(items, n)
                THEN c.res = Ok
                ELSE c.res = ToDoNotFound /\ c.self = items
        IN  /\ \A d \in Descriptions : Settled(update_item_description(items, n, d))
            /\ \A p \in Labels : Settled(update_item_priority(items, n, p))
            /\ \A ymd \in Ymds : Settled(update_item_due_date(items, n, ymd))
            /\ Settled(close_list_item(items, n))
            /\ Settled(open_list_item(items, n))

\* C6 witness: a mutator was just refused for a name that is not in the list,
\* while the list holds another item.
C6_Witness ==
    /\ last.op \in {"update_item_description", "update_item_priority",
                    "update_item_due_date", "close_list_item", "open_list_item"}
    /\ last.was = "absent"
    /\ last.result = ToDoNotFound
    /\ items # EmptyMap

\* The completed flags of the items other than those in `except`, kept from
\* list a to list b.
FlagsKept(a, b, except) ==
    \A k \in (DOMAIN a \cap DOMAIN b) \ except : b[k].completed = a[k].completed

\* C7: the completed flag is a two-state machine that starts Open and whose
\* transitions are idempotent: close_list_item succeeds and leaves
\* completed = true, also when called again; open_list_item succeeds and leaves
\* completed = false, also on an open item and when called again; and only
\* close_list_item, open_list_item and create_item on an item change its flag.
C7_CompletedFlag ==
    /\ \A n \in DOMAIN items :
          LET c1 == close_list_item(items, n)
              c2 == close_list_item(c1.self, n)
              o1 == open_list_item(items, n)
              o2 == open_list_item(o1.self, n)
          IN  /\ c1.res = Ok /\ c1.self[n].completed
              /\ c2.res = Ok /\ c2.self[n].completed /\ c2.self = c1.self
              /\ o1.res = Ok /\ ~o1.self[n].completed
              /\ o2.res = Ok /\ ~o2.self[n].completed /\ o2.self = o1.self
              /\ FlagsKept(items, c1.self, {n})
              /\ FlagsKept(items, o1.self, {n})
    /\ \A n \in Names :
          /\ \A d \in Descriptions :
                FlagsKept(items, update_item_description(items, n, d).self, {})
          /\ \A p \in Labels :
                FlagsKept(items, update_item_priority(items, n, p).self, {})
          /\ \A ymd \in Ymds :
                FlagsKept(items, update_item_due_date(items, n, ymd).self, {})
          /\ FlagsKept(items, delete_item(items, n).self, {})
          /\ \A d \in Descriptions, p \in Labels, dd \in OptYmds(Ymds), r \in BOOLEAN :
                LET c == create_item(items, n, d, p, dd, r, today)
                IN  /\ FlagsKept(items, c.self, {n})
                    /\ c.res = Ok => ~c.self[n].completed
    /\ (last.op = "close_list_item" /\ last.result = Ok) => items[last.name].completed
    /\ (last.op = "open_list_item" /\ last.result = Ok) => ~items[last.name].completed

\* C7 witness: close_list_item was just called on an item that was completed
\* already, and it succeeded.
C7_Witness ==
    /\ last.op = "close_list_item"
    /\ last.was = "completed"
    /\ last.result = Ok
    /\ items[last.name].completed

\* A date as the number yyyymmdd: earlier dates have smaller numbers.
DateNumber(date) == date[1] * 10000 + date[2] * 100 + date[3]

\* The names of the open items that are due strictly before `now`.
OverdueNames(self, now) ==
    {k \in DOMAIN self :
        /\ ~self[k].completed
        /\ self[k].due_date # None
        /\ DateNumber(Unwrap(self[k].due_date)) < DateNumber(now)}

\* C8: filter_overdue_items returns exactly the items that are not completed
\* and whose due date is present and strictly earlier than the current date,
\* each as stored; completing one of them removes it from filter_overdue_items
\* while it stays in the list.
C8_FilterOverdue ==
    /\ filter_overdue_items(items, today) =
           [k \in OverdueNames(items, today) |-> items[k]]
    /\ \A n \in DOMAIN filter_overdue_items(items, today) :
          LET c == close_list_item(items, n)
          IN  /\ ~contains_key(filter_overdue_items(c.self, today), n)
              /\ contains_key(c.self, n)
    /\ last.op = "filter_overdue_items" =>
           \A k \in DOMAIN Unwrap(out) :
               Unwrap(out)[k].due_date # None /\ ~Unwrap(out)[k].completed

\* C8 witness: an overdue item was just completed, so that it is in the list
\* and not among the overdue items, next to an item that is due today and is
\* not among them either.
C8_Witness ==
    /\ last.op = "close_list_item"
    /\ last.was = "open"
    /\ items[last.name].due_date # None
    /\ DateLt(Unwrap(items[last.name].due_date), today)
    /\ ~contains_key(filter_overdue_items(items, today), last.name)
    /\ \E k \in DOMAIN items :
          /\ ~items[k].completed
          /\ items[k].due_date = Some(today)
          /\ ~contains_key(filter_overdue_items(items, today), k)

\* The names of the items that are not completed.
OpenNames(self) == {k \in DOMAIN self : ~self[k].completed}

\* C9: filter_open_items returns exactly the items whose completed flag is
\* false, each under its own name with all fields as stored, and a call of it
\* or of filter_overdue_items does not modify the list.
C9_FilterOpen ==
    /\ [](/\ filter_open_items(items) = [k \in OpenNames(items) |-> items[k]]
          /\ \A k \in DOMAIN filter_open_items(items) :
                filter_open_items(items)[k].name = k
          /\ last.op = "filter_open_items" => out = Some(filter_open_items(items)))
    /\ [][(FilterOpen \/ FilterOverdue) => items' = items]_vars

\* C9 witness: filter_open_items has just returned one of two items, the other
\* being completed.
C9_Witness ==
    /\ last.op = "filter_open_items"
    /\ DOMAIN items = Names
    /\ Cardinality(DOMAIN Unwrap(out)) = 1

\* C10: create_item with a date triple that is no calendar date still succeeds
\* (where it would with a valid one) and stores the item with all other fields
\* as given and no due date; with a valid triple it stores exactly that date.
C10_CreateInvalidDate ==
    /\ \A n \in OneName, d \in Descriptions, p \in AllLabels, ymd \in AllYmds,
          r \in BOOLEAN :
          LET c == create_item(items, n, d, p, Some(ymd), r, today)
          IN  (r \/ ~list_contains_item(items, n)) =>
                /\ c.res = Ok
                /\ c.self[n] =
                       [name |-> n,
                        description |-> d,
                        priority |-> ExpectedPriority(p),
                        creation_date |-> today,
                        due_date |-> IF ymd \in InvalidYmds THEN None ELSE Some(ymd),
                        completed |-> FALSE]
    /\ (last.op = "create_item" /\ last.log # None)
          => /\ last.result = Ok
             /\ Unwrap(last.log) \in InvalidYmds
             /\ items[last.name].due_date = None

\* C10 witness: create_item was just called with 31 April; it succeeded and the
\* item has no due date.
C10_Witness ==
    /\ last.op = "create_item"
    /\ last.result = Ok
    /\ last.log = Some(<<2024, 4, 31>>)
    /\ items[last.name].due_date = None
    /\ items[last.name].priority = High

\* C11: update_item_due_date on an item of the list returns Ok; with a triple
\* that is no calendar date it leaves the due date as it was (present or
\* absent), with a valid triple the due date becomes that date; and no update
\* method turns a present due date into an absent one.
C11_UpdateInvalidDate ==
    /\ \A n \in DOMAIN items :
          /\ \A ymd \in AllYmds :
                LET c == update_item_due_date(items, n, ymd)
                IN  /\ c.res = Ok
                    /\ c.self[n].due_date =
                           (IF ymd \in InvalidYmds THEN items[n].due_date ELSE Some(ymd))
                    /\ items[n].due_date # None => c.self[n].due_date # None
          /\ items[n].due_date # None =>
                /\ \A d \in Descriptions :
                      update_item_description(items, n, d).self[n].due_date # None
                /\ \A p \in AllLabels :
                      update_item_priority(items, n, p).self[n].due_date # None
                /\ close_list_item(items, n).self[n].due_date # None
                /\ open_list_item(items, n).self[n].due_date # None
    /\ (last.op = "update_item_due_date" /\ last.log # None)
          => /\ last.result = Ok
             /\ Unwrap(last.log) \in InvalidYmds

\* C11 witness: update_item_due_date was just called with 29 February 2023 on
\* an item that had a due date, which it still has.
C11_Witness ==
    /\ last.op = "update_item_due_date"
    /\ last.log = Some(<<2023, 2, 29>>)
    /\ last.result = Ok
    /\ items[last.name].due_date = Some(<<2024, 2, 29>>)

\* The place of each item name in ascending lexicographic order.
NameRank(s) ==
    CASE s = "B" -> 1
      [] s = "a" -> 2
      [] s = "ab" -> 3
      [] s = "b" -> 4
      [] s = "d" -> 5

\* C15: sort_list (and list_all_items) over a name-keyed mapping returns a
\* sequence that holds every entry of the mapping exactly once and is in
\* strictly ascending lexicographic order of name, whatever the order in which
\* the mapping yields its entries (d, b, a gives a, b, d); and taking the
\* ordered view leaves the mapping as it is.
C15_SortList ==
  /\ [][last'.op \in {"display_all_items", "display_all_open_items"}
           => items' = items]_vars
  /\ []
    /\ \A order \in IterationOrders(DOMAIN items) :
          LET v == list_all_items(items, order)
          IN  /\ Len(v) = Cardinality(DOMAIN items)
              /\ \A k \in DOMAIN items : \E i \in 1..Len(v) : v[i] = <<k, items[k]>>
              /\ \A i, j \in 1..Len(v) : i < j => NameRank(v[i][1]) < NameRank(v[j][1])
    /\ LET m == [k \in {"d", "b", "a"} |-> k]
       IN  \A order \in IterationOrders({"d", "b", "a"}) :
              sort_list(m, order) = <<<<"a", "a">>, <<"b", "b">>, <<"d", "d">>>>
    /\ last.op = "display_all_items" =>
          \A order \in IterationOrders(DOMAIN items) :
              out = Some(list_all_items(items, order))

\* C15 witness: the ordered view of a list of all five names was just taken;
\* it reads B, a, ab, b, d.
C15_Witness ==
    /\ last.op = "display_all_items"
    /\ DOMAIN items = SortNames
    /\ [i \in 1..5 |-> Unwrap(out)[i][1]] = <<"B", "a", "ab", "b", "d">>

\* What an item may differ from its former self in: the one named field.
OnlyField(was, now, field) ==
    CASE field = "description" -> now = [was EXCEPT !.description = now.description]
      [] field = "priority" -> now = [was EXCEPT !.priority = now.priority]
      [] field = "due_date" -> now = [was EXCEPT !.due_date = now.due_date]
      [] field = "completed" -> now = [was EXCEPT !.completed = now.completed]

\* A list-level call on item n succeeded and left everything in the mapping
\* as it was, except the one named field of item n.
OnlyFieldOfItem(c, n, field) ==
    /\ c.res = Ok
    /\ DOMAIN c.self = DOMAIN items
    /\ \A m \in DOMAIN items \ {n} : c.self[m] = items[m]
    /\ c.self[n].name = items[n].name
    /\ c.self[n].creation_date = items[n].creation_date
    /\ OnlyField(items[n], c.self[n], field)

\* C19: each list-level mutator called on an existing item sets its one
\* targeted field of that one item (description, priority, due date, or
\* completed) and changes nothing else: the item's name and creation date,
\* its other fields, the set of names and every other item stay as they
\* were, and no step of a mutator changes the list's name or description.
C19_OneFieldOnly ==
    /\ [](\A n \in DOMAIN items :
            /\ \A d \in Descriptions :
                  LET c == update_item_description(items, n, d)
                  IN  OnlyFieldOfItem(c, n, "description") /\ c.self[n].description = d
            /\ \A p \in AllLabels :
                  LET c == update_item_priority(items, n, p)
                  IN  /\ OnlyFieldOfItem(c, n, "priority")
                      /\ c.self[n].priority = ExpectedPriority(p)
            /\ \A ymd \in AllYmds :
                  LET c == update_item_due_date(items, n, ymd)
                  IN  /\ OnlyFieldOfItem(c, n, "due_date")
                      /\ ymd \in ValidYmds => c.self[n].due_date = Some(ymd)
            /\ LET c == close_list_item(items, n)
               IN  OnlyFieldOfItem(c, n, "completed") /\ c.self[n].completed
            /\ LET c == open_list_item(items, n)
               IN  OnlyFieldOfItem(c, n, "completed") /\ ~c.self[n].completed)
    /\ [][last'.op \in {"update_item_description", "update_item_priority",
                        "update_item_due_date", "close_list_item", "open_list_item"}
             => UNCHANGED <<list_name, list_description>>]_vars

\* C19 witness: the priority of item a was just updated while the list also
\* holds item b, and the two items differ in priority.
C19_Witness ==
    /\ last.op = "update_item_priority"
    /\ last.result = Ok
    /\ last.name = "a"
    /\ DOMAIN items = {"a", "b"}
    /\ items["a"].priority # items["b"].priority

\* C12: a list saved and then loaded by its own name comes back as the list
\* that was saved - name, description, the same item names, and every field
\* of every item - whatever the list's name, a name with a '.' included.
C12_RoundTrip ==
    pc = "run" =>
        LET c == load_to_do_list(list_name, save_to_do_list(TheList, files))
        IN  c.res = Ok /\ c.val = Some(TheList)

\* C13: for every list N that was saved, loading N and loading N.json both
\* give the list in the record that save wrote for N.
C13_SameRecord ==
    \A n \in ListNames :
        WithJson(n) \in DOMAIN files =>
            LET written == [res |-> Ok, val |-> Some(from_reader(files[WithJson(n)]))]
            IN  /\ load_to_do_list(n, files) = written
                /\ load_to_do_list(WithJson(n), files) = written

\* C14: open_to_do_list gives an error result, and does not panic, when the
\* file it would read is not in the folder, and gives the list of that file
\* when it is: its existence check is about the file the loader opens.
C14_OpenMatchesFile ==
    \A id \in Identifiers :
        LET c == open_to_do_list(id, files)
            f == load_path(open_file_name(id))
        IN  IF f \in DOMAIN files
            THEN c = [res |-> Ok, val |-> Some(from_reader(files[f]))]
            ELSE c.res = Err

\* The record of the list in memory, read back from the folder.
PersistedList == from_reader(files[WithJson(list_name)])

\* C16: changes made to an item in select_and_modify_list and not saved with
\* 'Save changes' are reversed when the item is closed with Cancel: the item
\* in memory is again what it was when it was selected; and creating or
\* deleting an item afterwards, which saves the list, changes no other item
\* of the list's record, so that no unsaved change reaches the record.
C16_UnsavedReversed ==
    /\ []((last.op = "item_cancel" /\ ~saved) => items[sel] = Unwrap(entry))
    /\ [][(/\ last'.op \in {"create_new_item", "delete_select"}
           /\ WithJson(list_name) \in DOMAIN files
           /\ files' # files)
             => \A n \in DOMAIN PersistedList.items \ {last'.name} :
                    /\ n \in DOMAIN PersistedList'.items
                    /\ PersistedList'.items[n] = PersistedList.items[n]]_vars

\* What the user may answer to 'Enter Y to ...', and the answers that confirm.
AllChoices == {<<"Y">>, <<"y">>, <<"n">>, <<>>, <<"y", "e", "s">>}

Confirms == {<<"Y">>, <<"y">>}

\* C17: create_new_item and delete_list_item save directly: when an item was
\* created, or a deletion confirmed, the list's record read back equals the
\* list in memory; and creating under a name the list holds, without a 'Y',
\* changes neither the list in memory nor its record.
C17_MenuSavesDirectly ==
    /\ pc = "list" =>
          \A n \in Names, d \in Descriptions, p \in Labels,
             dd \in OptYmds(StoreYmds), answer \in AllChoices :
              LET c == create_new_item(TheList, files, n, d, p, dd, answer, today)
              IN  /\ c.res = Ok =>
                        /\ c.list.items[n] = ExpectedItem(n, d, p, dd, today)
                        /\ WithJson(list_name) \in DOMAIN c.files
                        /\ from_reader(c.files[WithJson(list_name)]) = c.list
                  /\ (n \notin DOMAIN items \/ answer \in Confirms) => c.res = Ok
                  /\ (n \in DOMAIN items /\ answer \notin Confirms) =>
                        /\ c.res = ToDoAlreadyPresent
                        /\ c.list = TheList
                        /\ c.files = files
    /\ pc = "delete" =>
          \A n \in DOMAIN items, answer \in AllChoices :
              LET c == delete_list_item(TheList, files, n, answer)
              IN  IF answer \in Confirms
                  THEN /\ c.left
                       /\ DOMAIN c.list.items = DOMAIN items \ {n}
                       /\ from_reader(c.files[WithJson(list_name)]) = c.list
                  ELSE ~c.left /\ c.list = TheList /\ c.files = files
    /\ (last.op \in {"create_new_item", "delete_select"} /\ last.result = Ok)
          => (WithJson(list_name) \in DOMAIN files /\ PersistedList = TheList)

\* C17 witness: create_new_item just replaced item a, which had been modified
\* in the item menu, while the list also holds b; the record has both.
C17_Witness ==
    /\ last.op = "create_new_item"
    /\ last.result = Ok
    /\ last.name = "a"
    /\ last.was = "completed"
    /\ DOMAIN PersistedList.items = {"a", "b"}
    /\ ~PersistedList.items["a"].completed

\* C18: create_to_do_list never replaces the record of a list unless the
\* user answers 'Y': when a record for the name typed exists (the name taken
\* with or without .json) and the answer is anything else, the folder stays
\* as it is; when there is none, a new record with no items is written.
C18_CreateListAsks ==
    pc = "main" =>
        \A typed \in TypedNames, d \in ListDescriptions, choice \in AllChoices :
            LET after == create_to_do_list(typed, d, choice, files)
                exists == \E f \in DOMAIN files : f \in {typed, typed \o JsonExt}
            IN  /\ DOMAIN files \subseteq DOMAIN after
                /\ choice \notin Confirms =>
                      \A f \in DOMAIN files : after[f] = files[f]
                /\ (exists /\ choice \notin Confirms) => after = files
                /\ ~exists =>
                      /\ DOMAIN after = DOMAIN files \cup {typed \o JsonExt}
                      /\ typed \o JsonExt \notin DOMAIN files
                      /\ from_reader(after[typed \o JsonExt]) = ToDoList(typed, d, EmptyMap)

\* C18 witness: create_to_do_list has just run while the folder holds a
\* record of list w with an item in it, which is still there.
C18_Witness ==
    /\ last.op = "create_to_do_list_menu"
    /\ pc = "main"
    /\ <<"w", ".", "j", "s", "o", "n">> \in DOMAIN files
    /\ DOMAIN files[<<"w", ".", "j", "s", "o", "n">>].items = {"a"}

====
